---------------------------- MODULE Spec2Model ----------------------------
(***************************************************************************)
(* A state-machine model of the AutoHome Mosquitto authorization plugin    *)
(* (auth/src/auth-plugin.c): the plugin life cycle (init, cleanup), the    *)
(* access-control decision (acl_check) and the username/password check     *)
(* (unpwd_check) with its credential lookup on one shared prepared         *)
(* statement.                                                              *)
(*                                                                         *)
(* C strings are sequences of character codes (ASCII); the null pointer    *)
(* is the value NULL.  Return codes keep the names the source uses.        *)
(***************************************************************************)
EXTENDS Integers, Sequences, FiniteSets, TLC

VARIABLES
    pc,         \* control point of the host: where the plugin life cycle is
    opts,       \* auth_opts handed to mosquitto_auth_plugin_init
    context,    \* the Context structure and the state of its memory
    user_data,  \* *user_data, the reference the host keeps to the Context
    sqlite,     \* the SQLite library: "down" or "up"
    store,      \* the database file: its tables and the rows of auth
    stmt,       \* the prepared statement context->passquery
    thr,        \* per host thread: the mosquitto_auth_unpwd_check call in progress
    acl,        \* the last mosquitto_auth_acl_check call and its result
    local,      \* locals and return values of init and cleanup
    trace       \* resource events of init and cleanup, in order

vars == <<pc, opts, context, user_data, sqlite, store, stmt, thr, acl, local, trace>>

-----------------------------------------------------------------------------
(* Bounds of the model *)

\* longest username, clientid and superuser name enumerated for acl_check
MaxNameLen == 1

\* longest topic enumerated for acl_check
MaxTopicLen == 3

-----------------------------------------------------------------------------
(* C strings *)

\* the null pointer; no string holds the code -1
NULL == <<-1>>

Min(a, b) == IF a < b THEN a ELSE b

RECURSIVE StringsOver(_, _)
\* every string over alphabet A of length at most n
StringsOver(A, n) ==
    IF n = 0 THEN {<<>>}
    ELSE LET shorter == StringsOver(A, n - 1)
         IN  shorter \cup {Append(s, c) : s \in shorter, c \in A}

strlen(s) == Len(s)

\* 0 when the strings are equal, else the sign of the first difference (the
\* shorter string ends with the terminator 0, below every character)
strcmp(a, b) ==
    LET common == Min(Len(a), Len(b))
        diffs  == {i \in 1..common : a[i] # b[i]}
    IN  IF diffs # {}
        THEN LET i == CHOOSE d \in diffs : \A e \in diffs : d <= e
             IN  IF a[i] < b[i] THEN -1 ELSE 1
        ELSE IF Len(a) < Len(b) THEN -1
        ELSE IF Len(a) > Len(b) THEN 1
        ELSE 0

\* strncpy(dst, src, n); dst[n - 1] = 0: the first n - 1 characters of src
strncpy_terminated(src, n) == SubSeq(src, 1, Min(Len(src), n - 1))

-----------------------------------------------------------------------------
(* mosquitto_auth_acl_check *)

\* characters of the names and topics enumerated: 'a', 'b' and '/'
NameAlphabet == {97, 98, 47}

Names == StringsOver(NameAlphabet, MaxNameLen)

Topics == StringsOver(NameAlphabet, MaxTopicLen)

AccessKinds == {"MOSQ_ACL_READ", "MOSQ_ACL_WRITE"}

\* what a call with undefined behaviour (a null pointer handed to strlen or
\* strncpy) can do: return either code, or fault
UndefinedOutcomes(denied) == {"MOSQ_ERR_SUCCESS", denied, "FAULT"}

RECURSIVE prefix_loop(_, _, _, _)
\* the for loop of acl_check from index i (0-based): the index at which it
\* stops, and whether it stopped on a mismatch
prefix_loop(username, topic, namelen, i) ==
    IF i < namelen
    THEN IF username[i + 1] # topic[i + 1]
         THEN [i |-> i, mismatch |-> TRUE]
         ELSE prefix_loop(username, topic, namelen, i + 1)
    ELSE [i |-> i, mismatch |-> FALSE]

\* namespace_rule with the length test off by one (topiclen < namelen + 1)
namespace_rule_short(username, topic) ==
    LET namelen  == strlen(username)
        topiclen == strlen(topic)
    IN  IF topiclen < namelen + 1 THEN "MOSQ_ERR_ACL_DENIED"
        ELSE LET l == prefix_loop(username, topic, namelen, 0)
             IN  IF l.mismatch THEN "MOSQ_ERR_ACL_DENIED"
                 ELSE IF topic[l.i + 1] # 47 THEN "MOSQ_ERR_ACL_DENIED"
                 ELSE "MOSQ_ERR_SUCCESS"

\* the namespace rule: the part of acl_check after the identity checks
namespace_rule(username, topic) ==
    LET namelen  == strlen(username)
        topiclen == strlen(topic)
    IN  IF topiclen < namelen + 2 THEN "MOSQ_ERR_ACL_DENIED"
        ELSE LET l == prefix_loop(username, topic, namelen, 0)
             IN  IF l.mismatch THEN "MOSQ_ERR_ACL_DENIED"
                 ELSE IF topic[l.i + 1] # 47 THEN "MOSQ_ERR_ACL_DENIED"
                 ELSE "MOSQ_ERR_SUCCESS"

\* the null checks of acl_check
acl_null_check(clientid, username) == clientid = NULL \/ username = NULL

\* the superuser test of acl_check
acl_is_superuser(superuser, username) ==
    superuser # NULL /\ strcmp(superuser, username) = 0

\* the identity test comparing only up to the length of clientid (strncmp)
acl_identity_mismatch_prefix(clientid, username) ==
    strcmp(clientid, SubSeq(username, 1, Min(Len(clientid), Len(username)))) # 0

\* the identity test of acl_check
acl_identity_mismatch(clientid, username) == strcmp(clientid, username) # 0

\* acl_check with the identity test moved before the superuser test
acl_check_identity_first(superuser, clientid, username, topic, access) ==
    IF acl_null_check(clientid, username) THEN {"MOSQ_ERR_ACL_DENIED"}
    ELSE IF acl_identity_mismatch(clientid, username) THEN {"MOSQ_ERR_ACL_DENIED"}
    ELSE IF acl_is_superuser(superuser, username) THEN {"MOSQ_ERR_SUCCESS"}
    ELSE IF topic = NULL THEN UndefinedOutcomes("MOSQ_ERR_ACL_DENIED")
    ELSE {namespace_rule(username, topic)}

\* acl_check letting only the superuser write
acl_check_read_only(superuser, clientid, username, topic, access) ==
    IF acl_null_check(clientid, username) THEN {"MOSQ_ERR_ACL_DENIED"}
    ELSE IF acl_is_superuser(superuser, username) THEN {"MOSQ_ERR_SUCCESS"}
    ELSE IF acl_identity_mismatch(clientid, username) THEN {"MOSQ_ERR_ACL_DENIED"}
    ELSE IF access = "MOSQ_ACL_WRITE" THEN {"MOSQ_ERR_ACL_DENIED"}
    ELSE IF topic = NULL THEN UndefinedOutcomes("MOSQ_ERR_ACL_DENIED")
    ELSE {namespace_rule(username, topic)}

\* the set of results mosquitto_auth_acl_check can return
acl_check(superuser, clientid, username, topic, access) ==
    IF acl_null_check(clientid, username) THEN {"MOSQ_ERR_ACL_DENIED"}
    ELSE IF acl_is_superuser(superuser, username) THEN {"MOSQ_ERR_SUCCESS"}
    ELSE IF acl_identity_mismatch(clientid, username) THEN {"MOSQ_ERR_ACL_DENIED"}
    ELSE IF topic = NULL THEN UndefinedOutcomes("MOSQ_ERR_ACL_DENIED")
    ELSE {namespace_rule(username, topic)}

-----------------------------------------------------------------------------
(* The digest and its hexadecimal encoding *)

\* size of the buffers clienthash, hash and salt of unpwd_check
HashBufSize == 65

\* number of bytes of a SHA-256 digest
DigestBytes == 32

\* the two bits that stand for a character in the digest model; distinct for
\* the characters 'p', 'q', 'r', 's' that passwords and salts are made of
CharBits(c) == c % 4

\* sha256_init, sha256_update(salt), sha256_update(password), sha256_final:
\* the digest of the message as 32 bytes.  Modelled as an injective packing:
\* byte 0 holds the message length and each later byte four characters, so
\* that different messages (of up to 124 characters) have different digests.
sha256(message) ==
    [j \in 1..DigestBytes |->
        IF j = 1 THEN Len(message)
        ELSE LET base == 4 * (j - 2)
                 At(k) == IF base + k <= Len(message)
                          THEN CharBits(message[base + k]) ELSE 0
             IN  At(1) + 4 * At(2) + 16 * At(3) + 64 * At(4)]

\* char digit[17] = "0123456789abcdef"
digit == <<48, 49, 50, 51, 52, 53, 54, 55, 56, 57, 97, 98, 99, 100, 101, 102>>

\* a buffer cell that was never written
Uninitialized == -2

\* clienthash after sha256_final: the digest in cells 0..31, the rest unwritten
digest_buffer(digest) ==
    [c \in 1..HashBufSize |-> IF c <= DigestBytes THEN digest[c] ELSE Uninitialized]

\* the values "char byte = clienthash[i]" can take for a cell that holds the
\* byte b: b where char is unsigned, b - 256 for b >= 128 where it is signed
char_values(b) == IF b >= 128 THEN {b, b - 256} ELSE {b}

\* the body of the encoding loop with the two nibbles exchanged
hex_body_swapped(buf, k, byte) ==
    [buf EXCEPT ![k + 1] = digit[((byte \div 16) % 16) + 1],
                ![k]     = digit[(byte % 16) + 1]]

\* the body of the encoding loop: clienthash[k] = digit[byte & 0x0f] and
\* clienthash[k - 1] = digit[(byte >> 4) & 0x0f] (0-based indices, as in the
\* source; & 0x0f is the remainder modulo 16 for negative values as well)
hex_body(buf, k, byte) ==
    [buf EXCEPT ![k + 1] = digit[(byte % 16) + 1],
                ![k]     = digit[((byte \div 16) % 16) + 1]]

RECURSIVE hex_loop(_, _, _)
\* the encoding loop of unpwd_check from byte i, writing cells k and k - 1
\* (0-based indices, as in the source)
hex_loop(buf, i, k) ==
    IF i >= 0
    THEN hex_loop(hex_body(buf, k, buf[i + 1]), i - 1, k - 2)
    ELSE buf

\* the C string a buffer holds: its cells before the first 0
c_string(buf) ==
    LET zeros == {i \in 1..Len(buf) : buf[i] = 0}
        n     == IF zeros = {} THEN Len(buf) + 1
                 ELSE CHOOSE z \in zeros : \A y \in zeros : z <= y
    IN  SubSeq(buf, 1, n - 1)

\* clienthash as compared with the stored hash: the loop, then clienthash[64] = 0
hex_encode(digest) ==
    LET looped == hex_loop(digest_buffer(digest), DigestBytes - 1, 2 * DigestBytes - 1)
    IN  c_string([looped EXCEPT ![2 * DigestBytes + 1] = 0])

\* the hash the code computes for a salt and a password
client_hash(salt, password) == hex_encode(sha256(salt \o password))

\* the digests the encoding loop is run on, one more than MaxSeed of them
\* spread over the byte values
MaxSeed == 5

\* the digests the encoding loop is run on: spread over the byte values, all
\* bytes 0, all bytes 255, and the digest of a one-character salt and password
HexDigests ==
    { [j \in 1..DigestBytes |-> (17 * s + 9 * (j - 1)) % 256] : s \in 0..MaxSeed }
    \cup { [j \in 1..DigestBytes |-> 0], [j \in 1..DigestBytes |-> 255],
           sha256(<<114, 112>>) }

\* unpwd_check right after sha256_final: about to enter the encoding loop
HexCall(digest) ==
    [pc |-> "hex", i |-> DigestBytes - 1, k |-> 2 * DigestBytes - 1,
     clienthash |-> digest_buffer(digest), digest |-> digest]

-----------------------------------------------------------------------------
(* The auth table *)

\* usernames enumerated for unpwd_check: "a" and "b"
UnpwdUsers == {<<97>>, <<98>>}

\* longest password and guest secret enumerated
MaxPwLen == 1

\* passwords and guest secrets, over 'p' and 'q'
Secrets == StringsOver({112, 113}, MaxPwLen)

\* a username without a row in auth
NoRow == [hash |-> NULL, salt |-> NULL]

Salt1 == <<114>>

Pw1 == <<112>>

\* a salt one character longer than the salt buffer keeps
LongSalt == [i \in 1..HashBufSize |-> 114]

\* s with its first character replaced by another hex digit
FlipFirst(s) == [s EXCEPT ![1] = IF s[1] = 48 THEN 49 ELSE 48]

\* the rows of auth the model draws from: the hash of (Salt1, Pw1) as stored
\* for that salt, with one character of the hash or of the salt changed, an
\* empty hash, a salt longer than the buffer, and a hash with a 65th character
Rows ==
    { [hash |-> client_hash(Salt1, Pw1),              salt |-> Salt1],
      [hash |-> FlipFirst(client_hash(Salt1, Pw1)),   salt |-> Salt1],
      [hash |-> client_hash(Salt1, Pw1),              salt |-> <<115>>],
      [hash |-> <<>>,                                 salt |-> Salt1],
      [hash |-> client_hash(LongSalt, Pw1),           salt |-> LongSalt],
      [hash |-> Append(client_hash(Salt1, Pw1), 48),  salt |-> Salt1] }

\* the auth tables the model draws from: "a" with any of the rows or none,
\* "b" never registered
AuthTables ==
    { [u \in UnpwdUsers |-> IF u = <<97>> THEN r ELSE NoRow] : r \in Rows \cup {NoRow} }

\* whether "select hash, salt from auth where username=?" yields a row
HasRow(auth, username) ==
    username \in DOMAIN auth /\ auth[username] # NoRow

-----------------------------------------------------------------------------
(* The prepared statement context->passquery, as SQLite runs it *)

\* results a SQLite call is made to return by the store: success or an I/O error
StoreResults == {"SQLITE_OK", "SQLITE_IOERR"}

\* the statement right after sqlite3_prepare_v2
FreshStatement == [state |-> "ready", bound |-> NULL, err |-> "SQLITE_OK"]

\* no statement: before sqlite3_prepare_v2 succeeded
NoStatement == [state |-> "none", bound |-> NULL, err |-> "SQLITE_OK"]

\* sqlite3_reset: the statement goes back to its initial state and keeps its
\* binding; the call reports the error of the last sqlite3_step if that failed
sqlite3_reset(st, f) ==
    [rc |-> IF st.state = "error" THEN st.err ELSE f,
     st |-> [st EXCEPT !.state = "ready", !.err = "SQLITE_OK"]]

\* sqlite3_bind_text: refused (SQLITE_MISUSE) on a statement that was stepped
\* and not reset since
sqlite3_bind_text(st, username, f) ==
    IF st.state # "ready" THEN [rc |-> "SQLITE_MISUSE", st |-> st]
    ELSE IF f # "SQLITE_OK" THEN [rc |-> f, st |-> st]
    ELSE [rc |-> "SQLITE_OK", st |-> [st EXCEPT !.bound = username]]

\* sqlite3_step: the row of the bound username (SQLITE_ROW), the end of the
\* result (SQLITE_DONE), or an error the statement remembers
sqlite3_step(st, auth, f) ==
    IF f # "SQLITE_OK"
    THEN [rc |-> f, st |-> [st EXCEPT !.state = "error", !.err = f]]
    ELSE IF st.state = "row"
    THEN [rc |-> "SQLITE_DONE", st |-> [st EXCEPT !.state = "done"]]
    ELSE IF HasRow(auth, st.bound)
    THEN [rc |-> "SQLITE_ROW", st |-> [st EXCEPT !.state = "row"]]
    ELSE [rc |-> "SQLITE_DONE", st |-> [st EXCEPT !.state = "done"]]

\* sqlite3_column_text: a column of the current row, NULL without one
sqlite3_column_text(st, auth, column) ==
    IF st.state = "row" THEN auth[st.bound][column] ELSE NULL

-----------------------------------------------------------------------------
(* mosquitto_auth_unpwd_check and retrieve_password, call by call on the    *)
(* statement.  A call in progress is a record:                              *)
(*   pc        where the call is                                            *)
(*   username, password   its arguments                                     *)
(*   hash, salt           the buffers retrieve_password fills               *)
(*   retval    the value retrieve_password returned ("none" before)         *)
(*   found     what sqlite3_step answered: "row", "norow" or "none"         *)
(*   faulted   whether a SQLite call of this lookup reported an error       *)
(*   ret       the value unpwd_check returned ("none" before)               *)
(***************************************************************************)

IdleCall ==
    [pc |-> "idle", username |-> NULL, password |-> NULL, hash |-> <<>>,
     salt |-> <<>>, retval |-> "none", found |-> "none", faulted |-> FALSE,
     ret |-> "none"]

\* the entry of unpwd_check up to the call of retrieve_password
unpwd_enter(username, password) ==
    IF username = NULL
    THEN [IdleCall EXCEPT !.pc = "done", !.ret = "MOSQ_ERR_AUTH"]
    ELSE [IdleCall EXCEPT !.pc = "reset1", !.username = username,
                          !.password = password]

\* retrieve_password returns retval to unpwd_check
rp_return(th, retval) == [th EXCEPT !.pc = "verify", !.retval = retval]

\* the first sqlite3_reset of retrieve_password
rp_reset1(th, st, f) ==
    LET r  == sqlite3_reset(st, f)
        t1 == [th EXCEPT !.faulted = @ \/ r.rc # "SQLITE_OK"]
    IN  {[th |-> IF r.rc # "SQLITE_OK" THEN rp_return(t1, r.rc)
                 ELSE [t1 EXCEPT !.pc = "bind"],
          st |-> r.st]}

\* sqlite3_bind_text of retrieve_password
rp_bind(th, st, f) ==
    LET r  == sqlite3_bind_text(st, th.username, f)
        t1 == [th EXCEPT !.faulted = @ \/ r.rc # "SQLITE_OK"]
    IN  {[th |-> IF r.rc # "SQLITE_OK" THEN rp_return(t1, r.rc)
                 ELSE [t1 EXCEPT !.pc = "step"],
          st |-> r.st]}

\* what retrieve_password does with the result of sqlite3_step
rp_after_step(th, retval) ==
    IF retval = "SQLITE_DONE"
    THEN [th EXCEPT !.pc = "reset2", !.found = "norow", !.hash = <<>>, !.salt = <<>>]
    ELSE IF retval = "SQLITE_ROW"
    THEN [th EXCEPT !.pc = "columns", !.found = "row"]
    ELSE rp_return(th, retval)

\* sqlite3_step of retrieve_password
rp_step(th, st, auth, f) ==
    LET r  == sqlite3_step(st, auth, f)
        t1 == [th EXCEPT !.faulted = @ \/ r.rc \notin {"SQLITE_DONE", "SQLITE_ROW"}]
    IN  {[th |-> rp_after_step(t1, r.rc), st |-> r.st]}

\* the two sqlite3_column_text and strncpy of retrieve_password; a NULL
\* column handed to strncpy is undefined behaviour
rp_columns(th, st, auth) ==
    LET h == sqlite3_column_text(st, auth, "hash")
        s == sqlite3_column_text(st, auth, "salt")
    IN  IF h = NULL \/ s = NULL
        THEN {[th |-> [th EXCEPT !.pc = "done", !.ret = r], st |-> st] :
                  r \in UndefinedOutcomes("MOSQ_ERR_AUTH")}
        ELSE {[th |-> [th EXCEPT !.pc = "reset2",
                                 !.hash = strncpy_terminated(h, HashBufSize),
                                 !.salt = strncpy_terminated(s, HashBufSize)],
               st |-> st]}

\* the last sqlite3_reset of retrieve_password
rp_reset2(th, st, f) ==
    LET r  == sqlite3_reset(st, f)
        t1 == [th EXCEPT !.faulted = @ \/ r.rc # "SQLITE_OK"]
    IN  {[th |-> rp_return(t1, r.rc), st |-> r.st]}

\* the guest rule letting any password pass when no guest secret is configured
guest_rule_open(guestsecret, password) ==
    IF guestsecret = NULL
       \/ (password # NULL /\ strcmp(guestsecret, password) = 0)
    THEN "MOSQ_ERR_SUCCESS" ELSE "MOSQ_ERR_AUTH"

\* the guest rule of unpwd_check, for a user it takes as unrecognized
guest_rule(guestsecret, password) ==
    IF (guestsecret = NULL /\ password = NULL)
       \/ (guestsecret # NULL /\ password # NULL /\ strcmp(guestsecret, password) = 0)
    THEN "MOSQ_ERR_SUCCESS" ELSE "MOSQ_ERR_AUTH"

\* the comparison of the computed hash with the stored one
hash_rule(hash, salt, password) ==
    IF strcmp(client_hash(salt, password), hash) = 0
    THEN "MOSQ_ERR_SUCCESS" ELSE "MOSQ_ERR_AUTH"

\* unpwd_check going on to the guest and hash rules without testing what
\* retrieve_password returned
unpwd_verify_unchecked(th, guestsecret) ==
    IF strlen(th.hash) = 0 THEN {guest_rule(guestsecret, th.password)}
    ELSE IF th.password = NULL THEN UndefinedOutcomes("MOSQ_ERR_AUTH")
    ELSE {hash_rule(th.hash, th.salt, th.password)}

\* unpwd_check after retrieve_password returned: the results it can return;
\* strlen of a NULL password is undefined behaviour
unpwd_verify(th, guestsecret) ==
    IF th.retval # "SQLITE_OK" THEN {"MOSQ_ERR_UNKNOWN"}
    ELSE IF strlen(th.hash) = 0 THEN {guest_rule(guestsecret, th.password)}
    ELSE IF th.password = NULL THEN UndefinedOutcomes("MOSQ_ERR_AUTH")
    ELSE {hash_rule(th.hash, th.salt, th.password)}

\* one step of a call in progress, the SQLite call of the step answering f:
\* the set of the states (call, statement) it can lead to
unpwd_step(th, st, auth, guestsecret, f) ==
    CASE th.pc = "reset1"  -> rp_reset1(th, st, f)
      [] th.pc = "bind"    -> rp_bind(th, st, f)
      [] th.pc = "step"    -> rp_step(th, st, auth, f)
      [] th.pc = "columns" -> rp_columns(th, st, auth)
      [] th.pc = "reset2"  -> rp_reset2(th, st, f)
      [] th.pc = "verify"  ->
            {[th |-> [th EXCEPT !.pc = "done", !.ret = r], st |-> st] :
                 r \in unpwd_verify(th, guestsecret)}

RECURSIVE unpwd_run(_, _, _, _)
\* a whole call run without interruption, over every answer of the store:
\* the set of the states (call, statement) it can end in
unpwd_run(th, st, auth, guestsecret) ==
    IF th.pc = "done" THEN {[th |-> th, st |-> st]}
    ELSE UNION { unpwd_run(x.th, x.st, auth, guestsecret) :
                   x \in UNION { unpwd_step(th, st, auth, guestsecret, f) :
                                   f \in StoreResults } }

RECURSIVE unpwd_run_healthy(_, _, _, _)
\* a whole call run without interruption while the store is healthy (every
\* SQLite call finds the store answering SQLITE_OK): the states it can end in
unpwd_run_healthy(th, st, auth, guestsecret) ==
    IF th.pc = "done" THEN {[th |-> th, st |-> st]}
    ELSE UNION { unpwd_run_healthy(x.th, x.st, auth, guestsecret) :
                   x \in unpwd_step(th, st, auth, guestsecret, "SQLITE_OK") }

-----------------------------------------------------------------------------
(* mosquitto_auth_plugin_init, step by step *)

\* longest option list handed to init
MaxOpts == 2

\* the options the model draws from: the three keys init reads and one it
\* does not ("d" is the path of the database file)
OptEntries ==
    { [key |-> "db_file",      value |-> <<100>>],
      [key |-> "superuser",    value |-> <<97>>],
      [key |-> "guest_secret", value |-> <<112>>],
      [key |-> "other",        value |-> <<120>>] }

RECURSIVE OptLists(_)
OptLists(n) ==
    IF n = 0 THEN {<<>>}
    ELSE LET shorter == OptLists(n - 1)
         IN  shorter \cup {Append(l, e) : l \in shorter, e \in OptEntries}

TableNames == {"profile", "auth", "schedule"}

\* the auth table right after "create table": no rows
EmptyAuth == [u \in UnpwdUsers |-> NoRow]

\* the auth table of a provisioned store: "a" registered with (Salt1, Pw1)
SampleAuth ==
    [u \in UnpwdUsers |->
        IF u = <<97>> THEN [hash |-> client_hash(Salt1, Pw1), salt |-> Salt1]
        ELSE NoRow]

\* an event of the trace: a call, the table or message it is about, and what
\* it returned (for a log line: its severity)
TEv(op, table, rc) == [op |-> op, table |-> table, rc |-> rc]

Ev(op, rc) == TEv(op, "-", rc)

\* the Context right after calloc: every field zero
ZeroContext ==
    [mem |-> "live", db |-> "NULL", passquery |-> "NULL",
     superuser |-> NULL, guestsecret |-> NULL]

\* no Context yet
NoContext == [ZeroContext EXCEPT !.mem = "none"]

\* no reload hook called yet
NoHook == [name |-> "none", reload |-> FALSE, ret |-> "none", during |-> "none"]

NoLocals ==
    [dbfile |-> NULL, profretvalue |-> "none", authretvalue |-> "none",
     schedretvalue |-> "none", initret |-> "none", cleanupret |-> "none",
     hook |-> NoHook]

NoAclCall ==
    [clientid |-> NULL, username |-> NULL, topic |-> NULL, access |-> "none",
     ret |-> "none", during |-> "none"]

Threads == {1, 2}

RECURSIVE opt_value(_, _, _)
\* the option loop of init for one key: the value of its last entry, or old
opt_value(list, key, old) ==
    IF list = <<>> THEN old
    ELSE opt_value(Tail(list), key,
                   IF Head(list).key = key THEN Head(list).value ELSE old)

\* free_context: the Context memory is released (its fields dangle)
free_context(ctx) == [ctx EXCEPT !.mem = "freed"]

\* sqlite3_close on the handle of the Context
sqlite3_close(ctx) ==
    [ctx EXCEPT !.db = IF @ = "NULL" THEN "NULL" ELSE "closed"]

\* init returns: the host records the code; the plugin is Ready on SUCCESS
init_return(code) ==
    /\ pc' = IF code = "SUCCESS" THEN "ready" ELSE "closed"
    /\ local' = [local EXCEPT !.initret = code]

\* calloc, *user_data = context, and the option loop
InitStart ==
    /\ pc = "start"
    /\ \E l \in OptLists(MaxOpts) :
          /\ opts' = l
          /\ context' = [ZeroContext EXCEPT
                            !.superuser   = opt_value(l, "superuser", NULL),
                            !.guestsecret = opt_value(l, "guest_secret", NULL)]
          /\ local' = [local EXCEPT !.dbfile = opt_value(l, "db_file", NULL)]
    /\ user_data' = "context"
    /\ pc' = "sqlite_init"
    /\ trace' = Append(trace, Ev("calloc", "OK"))
    /\ UNCHANGED <<sqlite, store, stmt, thr, acl>>

\* sqlite3_initialize
InitSqlite ==
    /\ pc = "sqlite_init"
    /\ \E f \in StoreResults :
          IF f # "SQLITE_OK"
          THEN /\ context' = free_context(context)
               /\ trace' = trace \o <<Ev("sqlite3_initialize", f), Ev("free_context", "OK")>>
               /\ init_return("FAILED_SQLITE")
               /\ UNCHANGED sqlite
          ELSE /\ sqlite' = "up"
               /\ trace' = Append(trace, Ev("sqlite3_initialize", f))
               /\ pc' = "dbfile"
               /\ UNCHANGED <<context, local>>
    /\ UNCHANGED <<opts, user_data, store, stmt, thr, acl>>

\* the test of dbfile
InitDbfile ==
    /\ pc = "dbfile"
    /\ IF local.dbfile = NULL
       THEN /\ context' = free_context(context)
            /\ trace' = Append(trace, Ev("free_context", "OK"))
            /\ init_return("NO_DB_FILE_SPECIFIED")
       ELSE /\ pc' = "open"
            /\ UNCHANGED <<context, local, trace>>
    /\ UNCHANGED <<opts, user_data, sqlite, store, stmt, thr, acl>>

\* sqlite3_open
InitOpen ==
    /\ pc = "open"
    /\ \E f \in StoreResults :
          IF f # "SQLITE_OK"
          THEN /\ context' = free_context(sqlite3_close([context EXCEPT !.db = "failed"]))
               /\ trace' = trace \o <<Ev("sqlite3_open", f), Ev("sqlite3_close", "SQLITE_OK"),
                                      Ev("free_context", "OK")>>
               /\ init_return("DB_FILE_CANTOPEN")
          ELSE /\ context' = [context EXCEPT !.db = "open"]
               /\ trace' = Append(trace, Ev("sqlite3_open", f))
               /\ pc' = "pragma"
               /\ UNCHANGED local
    /\ UNCHANGED <<opts, user_data, sqlite, store, stmt, thr, acl>>

\* sql_exec_void(context->db, "pragma foreign_keys = on;")
InitPragma ==
    /\ pc = "pragma"
    /\ \E f \in StoreResults :
          IF f # "SQLITE_OK"
          THEN /\ context' = free_context(sqlite3_close(context))
               /\ trace' = trace \o <<Ev("pragma", f), Ev("sqlite3_close", "SQLITE_OK"),
                                      Ev("free_context", "OK")>>
               /\ init_return("DB_ERROR")
          ELSE /\ trace' = Append(trace, Ev("pragma", f))
               /\ pc' = "profile"
               /\ UNCHANGED <<context, local>>
    /\ UNCHANGED <<opts, user_data, sqlite, store, stmt, thr, acl>>

\* create_table running the create statement whatever the count query found
create_table_always(tables, name, fcount, fcreate) ==
    IF fcount # "SQLITE_OK"
    THEN [ret |-> fcount, tables |-> tables,
          events |-> <<TEv("count", name, fcount)>>]
    ELSE IF fcreate # "SQLITE_OK"
    THEN [ret |-> fcreate, tables |-> tables,
          events |-> <<TEv("count", name, fcount), TEv("create", name, fcreate)>>]
    ELSE [ret |-> "SUCCESS", tables |-> tables \cup {name},
          events |-> <<TEv("count", name, fcount), TEv("create", name, fcreate)>>]

\* create_table: the count query, then "create table if not exists" when the
\* count is 0; fcount and fcreate are what the store answers to the two
create_table(tables, name, fcount, fcreate) ==
    IF fcount # "SQLITE_OK"
    THEN [ret |-> fcount, tables |-> tables,
          events |-> <<TEv("count", name, fcount)>>]
    ELSE LET count == IF name \in tables THEN 1 ELSE 0
         IN  IF count = 0
             THEN IF fcreate # "SQLITE_OK"
                  THEN [ret |-> fcreate, tables |-> tables,
                        events |-> <<TEv("count", name, fcount), TEv("create", name, fcreate)>>]
                  ELSE [ret |-> "SUCCESS", tables |-> tables \cup {name},
                        events |-> <<TEv("count", name, fcount), TEv("create", name, fcreate)>>]
             ELSE [ret |-> "NOTREQUIRED", tables |-> tables,
                   events |-> <<TEv("count", name, fcount)>>]

\* one of the three create_table calls of init: it stores the result and goes on
InitTable(at, name, next) ==
    /\ pc = at
    /\ \E fcount \in StoreResults, fcreate \in StoreResults :
          LET r == create_table(store.tables, name, fcount, fcreate)
          IN  /\ store' = [store EXCEPT !.tables = r.tables]
              /\ trace' = trace \o r.events
              /\ local' = CASE name = "profile"  -> [local EXCEPT !.profretvalue = r.ret]
                            [] name = "auth"     -> [local EXCEPT !.authretvalue = r.ret]
                            [] name = "schedule" -> [local EXCEPT !.schedretvalue = r.ret]
    /\ pc' = next
    /\ UNCHANGED <<opts, context, user_data, sqlite, stmt, thr, acl>>

InitProfile == InitTable("profile", "profile", "auth")

InitAuth == InitTable("auth", "auth", "schedule")

InitSchedule == InitTable("schedule", "schedule", "aggregate")

\* bool error of init
schema_error(l) ==
    \/ (l.profretvalue  # "SUCCESS" /\ l.profretvalue  # "NOTREQUIRED")
    \/ (l.authretvalue  # "SUCCESS" /\ l.authretvalue  # "NOTREQUIRED")
    \/ (l.schedretvalue # "SUCCESS" /\ l.schedretvalue # "NOTREQUIRED")

\* what init logs about the schema when there was no error
schema_log(l) ==
    IF l.profretvalue = "SUCCESS" /\ l.authretvalue = "SUCCESS" /\ l.schedretvalue = "SUCCESS"
    THEN <<TEv("log", "fresh", "MOSQ_LOG_NOTICE")>>
    ELSE IF l.profretvalue = "NOTREQUIRED" /\ l.authretvalue = "NOTREQUIRED"
            /\ l.schedretvalue = "NOTREQUIRED"
    THEN <<>>
    ELSE <<TEv("log", "patched", "MOSQ_LOG_NOTICE")>>

\* the test of the three results with the error branch left out
InitAggregate_no_abort ==
    /\ pc = "aggregate"
    /\ trace' = trace \o (IF schema_error(local) THEN <<>> ELSE schema_log(local))
    /\ pc' = "prepare"
    /\ UNCHANGED <<context, local>>
    /\ UNCHANGED <<opts, user_data, sqlite, store, stmt, thr, acl>>

\* the test of the three results
InitAggregate ==
    /\ pc = "aggregate"
    /\ IF ~schema_error(local)
       THEN /\ trace' = trace \o schema_log(local)
            /\ pc' = "prepare"
            /\ UNCHANGED <<context, local>>
       ELSE /\ context' = free_context(sqlite3_close(context))
            /\ trace' = trace \o <<TEv("log", "failed", "MOSQ_LOG_ERR"),
                                   Ev("sqlite3_close", "SQLITE_OK"), Ev("free_context", "OK")>>
            /\ init_return("DB_ERROR")
    /\ UNCHANGED <<opts, user_data, sqlite, store, stmt, thr, acl>>

\* sqlite3_prepare_v2 of the password query, and the return of init
InitPrepare ==
    /\ pc = "prepare"
    /\ \E f \in StoreResults :
          IF f # "SQLITE_OK"
          THEN /\ context' = free_context(sqlite3_close(context))
               /\ trace' = trace \o <<Ev("sqlite3_prepare_v2", f), Ev("sqlite3_finalize", "SQLITE_OK"),
                                      Ev("sqlite3_close", "SQLITE_OK"), Ev("free_context", "OK")>>
               /\ init_return("DB_ERROR")
               /\ UNCHANGED stmt
          ELSE /\ context' = [context EXCEPT !.passquery = "prepared"]
               /\ stmt' = FreshStatement
               /\ trace' = Append(trace, Ev("sqlite3_prepare_v2", f))
               /\ init_return("SUCCESS")
    /\ UNCHANGED <<opts, user_data, sqlite, store, thr, acl>>

-----------------------------------------------------------------------------
(* mosquitto_auth_plugin_cleanup, step by step *)

\* cleanup returns
cleanup_return(code) ==
    /\ pc' = "closed"
    /\ local' = [local EXCEPT !.cleanupret = code]

\* the host stops the engine and calls cleanup
CleanupStart ==
    /\ pc = "ready"
    /\ pc' = "finalize"
    /\ UNCHANGED <<opts, context, user_data, sqlite, store, stmt, thr, acl, local, trace>>

\* the finalization step returning at once when sqlite3_finalize fails,
\* without the sqlite3_close of that branch
CleanupFinalize_no_close ==
    /\ pc = "finalize"
    /\ \E f \in StoreResults :
          LET rc == IF stmt.state = "error" THEN stmt.err ELSE f
          IN  /\ stmt' = [stmt EXCEPT !.state = "finalized"]
              /\ IF rc # "SQLITE_OK"
                 THEN /\ context' = free_context([context EXCEPT !.passquery = "finalized"])
                      /\ trace' = trace \o <<Ev("sqlite3_finalize", rc),
                                             Ev("free_context", "OK")>>
                      /\ cleanup_return("DB_FILE_CANTCLOSE")
                 ELSE /\ context' = [context EXCEPT !.passquery = "finalized"]
                      /\ trace' = Append(trace, Ev("sqlite3_finalize", rc))
                      /\ pc' = "close"
                      /\ UNCHANGED local
    /\ UNCHANGED <<opts, user_data, sqlite, store, thr, acl>>

\* sqlite3_finalize(context->passquery): the statement is destroyed; the call
\* reports the error of the last sqlite3_step if that failed
CleanupFinalize ==
    /\ pc = "finalize"
    /\ \E f \in StoreResults :
          LET rc == IF stmt.state = "error" THEN stmt.err ELSE f
          IN  /\ stmt' = [stmt EXCEPT !.state = "finalized"]
              /\ IF rc # "SQLITE_OK"
                 THEN /\ context' = free_context(sqlite3_close(
                                        [context EXCEPT !.passquery = "finalized"]))
                      /\ trace' = trace \o <<Ev("sqlite3_finalize", rc),
                                             Ev("sqlite3_close", "SQLITE_OK"),
                                             Ev("free_context", "OK")>>
                      /\ cleanup_return("DB_FILE_CANTCLOSE")
                 ELSE /\ context' = [context EXCEPT !.passquery = "finalized"]
                      /\ trace' = Append(trace, Ev("sqlite3_finalize", rc))
                      /\ pc' = "close"
                      /\ UNCHANGED local
    /\ UNCHANGED <<opts, user_data, sqlite, store, thr, acl>>

\* sqlite3_close(context->db); a close that fails leaves the handle open
CleanupClose ==
    /\ pc = "close"
    /\ \E f \in StoreResults :
          IF f # "SQLITE_OK"
          THEN /\ context' = free_context(context)
               /\ trace' = trace \o <<Ev("sqlite3_close", f), Ev("free_context", "OK")>>
               /\ cleanup_return("DB_FILE_CANTCLOSE")
          ELSE /\ context' = sqlite3_close(context)
               /\ trace' = Append(trace, Ev("sqlite3_close", f))
               /\ pc' = "shutdown"
               /\ UNCHANGED local
    /\ UNCHANGED <<opts, user_data, sqlite, store, stmt, thr, acl>>

\* sqlite3_shutdown, free_context, and the return of cleanup
CleanupShutdown ==
    /\ pc = "shutdown"
    /\ \E f \in StoreResults :
          /\ context' = free_context(context)
          /\ IF f # "SQLITE_OK"
             THEN /\ trace' = trace \o <<Ev("sqlite3_shutdown", f), Ev("free_context", "OK")>>
                  /\ cleanup_return("FAILED_SQLITE")
                  /\ UNCHANGED sqlite
             ELSE /\ sqlite' = "down"
                  /\ trace' = trace \o <<Ev("sqlite3_shutdown", f), Ev("free_context", "OK")>>
                  /\ cleanup_return("SUCCESS")
    /\ UNCHANGED <<opts, user_data, store, stmt, thr, acl>>

-----------------------------------------------------------------------------
(* create_table run by two processes on the same database file, statement   *)
(* by statement.  A call in progress is a record:                           *)
(*   pc       "count" before the count query, "create" before the create    *)
(*            statement, "done" after the return                            *)
(*   name     the table                                                     *)
(*   count    the local count                                               *)
(*   faulted  whether the store failed a statement of this call             *)
(*   ret      what create_table returned ("none" before)                    *)
(***************************************************************************)

Processes == {1, 2}

\* sql_exec_single_int on "select count(*) from sqlite_master where
\* type='table' and name=..."; count is left unset when the query fails
count_query(tables, name, f) ==
    IF f # "SQLITE_OK" THEN [rc |-> f, count |-> Uninitialized]
    ELSE [rc |-> "SQLITE_OK", count |-> IF name \in tables THEN 1 ELSE 0]

\* sql_exec_void on a plain "create table ...", which SQLite refuses
\* (SQLITE_ERROR) when the table exists
create_plain(tables, name, f) ==
    IF f # "SQLITE_OK" THEN [rc |-> f, tables |-> tables, added |-> FALSE]
    ELSE IF name \in tables
    THEN [rc |-> "SQLITE_ERROR", tables |-> tables, added |-> FALSE]
    ELSE [rc |-> "SQLITE_OK", tables |-> tables \cup {name}, added |-> TRUE]

\* sql_exec_void on "create table if not exists ...": the table is added when
\* it is not there, and the statement succeeds either way
create_if_not_exists(tables, name, f) ==
    IF f # "SQLITE_OK" THEN [rc |-> f, tables |-> tables, added |-> FALSE]
    ELSE [rc |-> "SQLITE_OK", tables |-> tables \cup {name},
          added |-> name \notin tables]

\* a process about to call create_table for a table
ProcCall(name) ==
    [pc |-> "count", name |-> name, count |-> Uninitialized, faulted |-> FALSE,
     ret |-> "none"]

\* the first half of create_table: the count query, and the return of
\* NOTREQUIRED when the count is not 0
ProcCount(p) ==
    /\ thr[p].pc = "count"
    /\ \E f \in StoreResults :
          LET q == count_query(store.tables, thr[p].name, f)
          IN  /\ thr' = [thr EXCEPT ![p] =
                            IF q.rc # "SQLITE_OK"
                            THEN [@ EXCEPT !.pc = "done", !.faulted = TRUE, !.ret = q.rc]
                            ELSE IF q.count = 0
                            THEN [@ EXCEPT !.pc = "create", !.count = q.count]
                            ELSE [@ EXCEPT !.pc = "done", !.count = q.count,
                                           !.ret = "NOTREQUIRED"]]
              /\ trace' = Append(trace, TEv("count", thr[p].name, q.rc))
    /\ UNCHANGED <<pc, opts, context, user_data, sqlite, store, stmt, acl, local>>

\* the second half of create_table: the create statement, run when the count
\* was 0
ProcCreate(p) ==
    /\ thr[p].pc = "create"
    /\ \E f \in StoreResults :
          LET c == create_if_not_exists(store.tables, thr[p].name, f)
          IN  /\ store' = [store EXCEPT !.tables = c.tables]
              /\ thr' = [thr EXCEPT ![p] =
                            IF c.rc # "SQLITE_OK"
                            THEN [@ EXCEPT !.pc = "done", !.ret = c.rc,
                                           !.faulted = (f # "SQLITE_OK")]
                            ELSE [@ EXCEPT !.pc = "done", !.ret = "SUCCESS"]]
              /\ trace' = trace \o <<TEv("create", thr[p].name, c.rc)>>
                                \o (IF c.added THEN <<TEv("added", thr[p].name, "SQLITE_OK")>>
                                    ELSE <<>>)
    /\ UNCHANGED <<pc, opts, context, user_data, sqlite, stmt, acl, local>>

\* the engine has been started a second time
Restarted == \E i \in 1..Len(trace) : trace[i].op = "restart"

\* the host starts the engine again, in a new process, on the same database
\* file and with the same options: calloc, *user_data = context and the
\* option loop of the second mosquitto_auth_plugin_init
InitAgain ==
    /\ pc = "closed"
    /\ ~Restarted
    /\ context' = [ZeroContext EXCEPT
                      !.superuser   = opt_value(opts, "superuser", NULL),
                      !.guestsecret = opt_value(opts, "guest_secret", NULL)]
    /\ local' = [NoLocals EXCEPT !.dbfile = opt_value(opts, "db_file", NULL)]
    /\ user_data' = "context"
    /\ sqlite' = "down"
    /\ stmt' = NoStatement
    /\ pc' = "sqlite_init"
    /\ trace' = trace \o <<Ev("restart", local.initret), Ev("calloc", "OK")>>
    /\ UNCHANGED <<opts, store, thr, acl>>

-----------------------------------------------------------------------------
(* The host: the life cycle it drives and the callbacks it makes *)

InitPcs == {"sqlite_init", "dbfile", "open", "pragma", "profile", "auth",
            "schedule", "aggregate", "prepare"}

CleanupPcs == {"finalize", "close", "shutdown"}

\* the state of the engine: before init is called, inside init, after init
\* returned SUCCESS, inside cleanup, and after cleanup or a failed init returned
Lifecycle ==
    CASE pc = "start"      -> "Uninitialized"
      [] pc \in InitPcs    -> "Initializing"
      [] pc = "ready"      -> "Ready"
      [] pc \in CleanupPcs -> "ShuttingDown"
      [] pc = "closed"     -> "Closed"

\* no call in progress on either thread of Threads
IdleThreads == <<IdleCall, IdleCall>>

\* a request the host is about to hand to mosquitto_auth_acl_check
AclRequest(clientid, username, topic, access) ==
    [clientid |-> clientid, username |-> username, topic |-> topic,
     access |-> access, ret |-> "pending", during |-> "none"]

\* the requests over given identifiers and topics
AclRequests(Ids, Tps) ==
    { AclRequest(c, u, t, a) : c \in Ids, u \in Ids, t \in Tps, a \in AccessKinds }

\* mosquitto_auth_acl_check run on a request: the calls as they can return
acl_call(req) ==
    { [req EXCEPT !.ret = r, !.during = Lifecycle] :
          r \in acl_check(context.superuser, req.clientid, req.username,
                          req.topic, req.access) }

\* the host calls mosquitto_auth_acl_check, which runs to its return; acl
\* keeps the call (thr keeps no older call)
AclCheckOver(Ids, Tps) ==
    /\ pc = "ready"
    /\ \E req \in AclRequests(Ids, Tps) : acl' \in acl_call(req)
    /\ thr' = IdleThreads
    /\ UNCHANGED <<pc, opts, context, user_data, sqlite, store, stmt, local, trace>>

\* mosquitto_auth_acl_check runs on the request the host holds
AclCheck ==
    /\ pc = "ready"
    /\ acl.ret = "pending"
    /\ acl' \in acl_call(acl)
    /\ UNCHANGED <<pc, opts, context, user_data, sqlite, store, stmt, thr, local, trace>>

\* the host calls mosquitto_auth_unpwd_check on its one thread, and the call
\* runs to its return; thr[1] keeps the call (acl keeps no older call)
UnpwdCheckOver(Users, Passwords) ==
    /\ pc = "ready"
    /\ \E username \in Users, password \in Passwords :
          \E x \in unpwd_run(unpwd_enter(username, password), stmt, store.auth,
                             context.guestsecret) :
              /\ thr' = [IdleThreads EXCEPT ![1] = x.th]
              /\ stmt' = x.st
    /\ acl' = NoAclCall
    /\ UNCHANGED <<pc, opts, context, user_data, sqlite, store, local, trace>>

\* a host thread enters mosquitto_auth_unpwd_check while other calls may be
\* in progress
ConcEnter(t, Users, Passwords) ==
    /\ pc = "ready"
    /\ thr[t].pc \in {"idle", "done"}
    /\ \E username \in Users, password \in Passwords :
          thr' = [thr EXCEPT ![t] = unpwd_enter(username, password)]
    /\ UNCHANGED <<pc, opts, context, user_data, sqlite, store, stmt, acl, local, trace>>

\* a host thread takes the next step of its call
ConcStep(t) ==
    /\ pc = "ready"
    /\ thr[t].pc \notin {"idle", "done"}
    /\ \E f \in StoreResults :
          \E x \in unpwd_step(thr[t], stmt, store.auth, context.guestsecret, f) :
              /\ thr' = [thr EXCEPT ![t] = x.th]
              /\ stmt' = x.st
    /\ UNCHANGED <<pc, opts, context, user_data, sqlite, store, acl, local, trace>>

\* mosquitto_auth_security_init: its return value
security_init(reload) == "SUCCESS"

\* mosquitto_auth_security_cleanup: its return value
security_cleanup(reload) == "SUCCESS"

\* the host has no call of init or cleanup in progress
BetweenCalls == pc \notin InitPcs \cup CleanupPcs

\* security_init dropping the superuser of the Context on a reload
SecurityInit_rederive ==
    /\ BetweenCalls
    /\ \E reload \in BOOLEAN :
          /\ local' = [local EXCEPT !.hook = [name |-> "security_init", reload |-> reload,
                                              ret |-> security_init(reload),
                                              during |-> Lifecycle]]
          /\ context' = IF reload THEN [context EXCEPT !.superuser = NULL] ELSE context
    /\ UNCHANGED <<pc, opts, user_data, sqlite, store, stmt, thr, acl, trace>>

\* the host calls mosquitto_auth_security_init, at start-up or on a reload of
\* its configuration; local.hook keeps the call
SecurityInit ==
    /\ BetweenCalls
    /\ \E reload \in BOOLEAN :
          local' = [local EXCEPT !.hook = [name |-> "security_init", reload |-> reload,
                                           ret |-> security_init(reload),
                                           during |-> Lifecycle]]
    /\ UNCHANGED <<pc, opts, context, user_data, sqlite, store, stmt, thr, acl, trace>>

\* the host calls mosquitto_auth_security_cleanup, at shut-down or on a
\* reload of its configuration; local.hook keeps the call
SecurityCleanup ==
    /\ BetweenCalls
    /\ \E reload \in BOOLEAN :
          local' = [local EXCEPT !.hook = [name |-> "security_cleanup", reload |-> reload,
                                           ret |-> security_cleanup(reload),
                                           during |-> Lifecycle]]
    /\ UNCHANGED <<pc, opts, context, user_data, sqlite, store, stmt, thr, acl, trace>>

-----------------------------------------------------------------------------
(* Specifications *)

\* the stores the engine starts on: any subset of the tables present, auth
\* (when present) provisioned with one user
InitialStores ==
    { [tables |-> T, auth |-> IF "auth" \in T THEN SampleAuth ELSE EmptyAuth] :
          T \in SUBSET TableNames }

\* arguments of the callbacks under the life-cycle specification
LifeIds == {NULL, <<97>>}

LifeTopics == {<<97, 47, 98>>, <<98>>}

LifeUsers == {NULL, <<97>>, <<98>>}

LifePasswords == {NULL, <<112>>}

\* the whole life of the engine
Init ==
    /\ pc = "start"
    /\ opts = <<>>
    /\ context = NoContext
    /\ user_data = "NULL"
    /\ sqlite = "down"
    /\ store \in InitialStores
    /\ stmt = NoStatement
    /\ thr = IdleThreads
    /\ acl = NoAclCall
    /\ local = NoLocals
    /\ trace = <<>>

HostAclCheck == AclCheckOver(LifeIds, LifeTopics)

HostUnpwdCheck == UnpwdCheckOver(LifeUsers, LifePasswords)

Next ==
    \/ InitStart
    \/ InitSqlite
    \/ InitDbfile
    \/ InitOpen
    \/ InitPragma
    \/ InitProfile
    \/ InitAuth
    \/ InitSchedule
    \/ InitAggregate
    \/ InitPrepare
    \/ HostAclCheck
    \/ HostUnpwdCheck
    \/ CleanupStart
    \/ CleanupFinalize
    \/ CleanupClose
    \/ CleanupShutdown

Spec == Init /\ [][Next]_vars

\* the option list that configures a superuser and a guest secret (NULL: none)
ReadyOpts(superuser, guestsecret) ==
    <<[key |-> "db_file", value |-> <<100>>]>>
    \o (IF superuser = NULL THEN <<>> ELSE <<[key |-> "superuser", value |-> superuser]>>)
    \o (IF guestsecret = NULL THEN <<>>
        ELSE <<[key |-> "guest_secret", value |-> guestsecret]>>)

\* the state in which init leaves the engine when it returns SUCCESS on a
\* store that holds the three tables
ReadyState(superuser, guestsecret, auth) ==
    /\ pc = "ready"
    /\ opts = ReadyOpts(superuser, guestsecret)
    /\ context = [mem |-> "live", db |-> "open", passquery |-> "prepared",
                  superuser |-> superuser, guestsecret |-> guestsecret]
    /\ user_data = "context"
    /\ sqlite = "up"
    /\ store = [tables |-> TableNames, auth |-> auth]
    /\ stmt = FreshStatement
    /\ thr = IdleThreads
    /\ local = [dbfile |-> <<100>>, profretvalue |-> "NOTREQUIRED",
                authretvalue |-> "NOTREQUIRED", schedretvalue |-> "NOTREQUIRED",
                initret |-> "SUCCESS", cleanupret |-> "none", hook |-> NoHook]
    /\ trace = << Ev("calloc", "OK"), Ev("sqlite3_initialize", "SQLITE_OK"),
                  Ev("sqlite3_open", "SQLITE_OK"), Ev("pragma", "SQLITE_OK"),
                  TEv("count", "profile", "SQLITE_OK"), TEv("count", "auth", "SQLITE_OK"),
                  TEv("count", "schedule", "SQLITE_OK"),
                  Ev("sqlite3_prepare_v2", "SQLITE_OK") >>

\* acl_check alone: a Ready engine with any superuser, every argument
InitAcl ==
    /\ \E superuser \in Names \cup {NULL} : ReadyState(superuser, NULL, SampleAuth)
    /\ acl \in AclRequests(Names \cup {NULL}, Topics \cup {NULL})

NextAcl == AclCheck

SpecAcl == InitAcl /\ [][NextAcl]_vars

\* unpwd_check on a single-threaded host: a Ready engine with any guest
\* secret and any auth table, calls one after the other
InitUnpwd ==
    \E guestsecret \in Secrets \cup {NULL}, auth \in AuthTables :
        /\ ReadyState(NULL, guestsecret, auth)
        /\ acl = NoAclCall

\* the usernames and the passwords of the calls: every one enumerated, and
\* the null pointer
UnpwdCallUsers == {u : u \in UnpwdUsers \cup {NULL}}

UnpwdCallPasswords == {p : p \in Secrets \cup {NULL}}

UnpwdCheck == UnpwdCheckOver(UnpwdCallUsers, UnpwdCallPasswords)

NextUnpwd == UnpwdCheck

SpecUnpwd == InitUnpwd /\ [][NextUnpwd]_vars

\* unpwd_check on a host that calls it from two threads at once
InitConc == ReadyState(NULL, NULL, SampleAuth) /\ acl = NoAclCall

ThreadEnter == \E t \in Threads : ConcEnter(t, UnpwdUsers, {NULL, Pw1})

ThreadStep == \E t \in Threads : ConcStep(t)

NextConc ==
    \/ ThreadEnter
    \/ ThreadStep

SpecConc == InitConc /\ [][NextConc]_vars

\* the engine started, stopped and started once more on the same database file
NextSchema ==
    \/ InitStart
    \/ InitSqlite
    \/ InitDbfile
    \/ InitOpen
    \/ InitPragma
    \/ InitProfile
    \/ InitAuth
    \/ InitSchedule
    \/ InitAggregate
    \/ InitPrepare
    \/ CleanupStart
    \/ CleanupFinalize
    \/ CleanupClose
    \/ CleanupShutdown
    \/ InitAgain

SpecSchema == Init /\ [][NextSchema]_vars

\* the life of the engine on a provisioned store, with the reload hooks
\* called at any time between the calls of init and cleanup
InitReload == Init /\ store.tables = TableNames

ReloadAclCheck == AclCheckOver({<<97>>, <<98>>}, {<<97, 47, 98>>})

NextReload ==
    \/ InitStart
    \/ InitSqlite
    \/ InitDbfile
    \/ InitOpen
    \/ InitPragma
    \/ InitProfile
    \/ InitAuth
    \/ InitSchedule
    \/ InitAggregate
    \/ InitPrepare
    \/ SecurityInit
    \/ SecurityCleanup
    \/ ReloadAclCheck
    \/ CleanupStart
    \/ CleanupFinalize
    \/ CleanupClose
    \/ CleanupShutdown

SpecReload == InitReload /\ [][NextReload]_vars

\* the decisions of a Ready engine on a single-threaded host, every argument
\* present or absent: "a" is registered, "b" is not
DecideIds == {NULL, <<97>>}

DecideTopics == {NULL, <<97, 47, 98>>}

DecideUsers == {NULL, <<97>>, <<98>>}

DecidePasswords == {NULL, Pw1}

InitDecide ==
    \E superuser \in {NULL, <<98>>}, guestsecret \in {NULL, Pw1} :
        /\ ReadyState(superuser, guestsecret, SampleAuth)
        /\ acl = NoAclCall

DecideAcl == AclCheckOver(DecideIds, DecideTopics)

DecideUnpwd == UnpwdCheckOver(DecideUsers, DecidePasswords)

NextDecide ==
    \/ DecideAcl
    \/ DecideUnpwd

SpecDecide == InitDecide /\ [][NextDecide]_vars

\* one iteration of the encoding loop of unpwd_check on the thread's buffer
HexStep ==
    /\ thr[1].pc = "hex"
    /\ thr[1].i >= 0
    /\ \E byte \in char_values(thr[1].clienthash[thr[1].i + 1]) :
          thr' = [thr EXCEPT ![1] =
                     [@ EXCEPT !.clienthash = hex_body(@, thr[1].k, byte),
                               !.i = @ - 1, !.k = @ - 2]]
    /\ UNCHANGED <<pc, opts, context, user_data, sqlite, store, stmt, acl, local, trace>>

\* the end of the loop: clienthash[64] = 0
HexTerminate ==
    /\ thr[1].pc = "hex"
    /\ thr[1].i < 0
    /\ thr' = [thr EXCEPT ![1] =
                   [@ EXCEPT !.clienthash = [@ EXCEPT ![2 * DigestBytes + 1] = 0],
                             !.pc = "encoded"]]
    /\ UNCHANGED <<pc, opts, context, user_data, sqlite, store, stmt, acl, local, trace>>

\* unpwd_check of a Ready engine, from sha256_final on, for any digest
InitHex ==
    /\ pc = "ready"
    /\ opts = ReadyOpts(NULL, NULL)
    /\ context = [mem |-> "live", db |-> "open", passquery |-> "prepared",
                  superuser |-> NULL, guestsecret |-> NULL]
    /\ user_data = "context"
    /\ sqlite = "up"
    /\ store = [tables |-> TableNames, auth |-> SampleAuth]
    /\ stmt = FreshStatement
    /\ \E digest \in HexDigests : thr = [IdleThreads EXCEPT ![1] = HexCall(digest)]
    /\ acl = NoAclCall
    /\ local = [NoLocals EXCEPT !.dbfile = <<100>>, !.initret = "SUCCESS"]
    /\ trace = <<>>

NextHex ==
    \/ HexStep
    \/ HexTerminate

SpecHex == InitHex /\ [][NextHex]_vars

\* two processes that opened the same database file, both at the same
\* create_table call of their init
InitRace ==
    \E name \in TableNames :
        /\ pc = name
        /\ opts = ReadyOpts(NULL, NULL)
        /\ context = [ZeroContext EXCEPT !.db = "open"]
        /\ user_data = "context"
        /\ sqlite = "up"
        /\ store \in InitialStores
        /\ stmt = NoStatement
        /\ thr = [p \in Processes |-> ProcCall(name)]
        /\ acl = NoAclCall
        /\ local = [NoLocals EXCEPT !.dbfile = <<100>>]
        /\ trace = <<>>

RaceCount == \E p \in Processes : ProcCount(p)

RaceCreate == \E p \in Processes : ProcCreate(p)

NextRace ==
    \/ RaceCount
    \/ RaceCreate

SpecRace == InitRace /\ [][NextRace]_vars

-----------------------------------------------------------------------------
(* Properties of mosquitto_auth_acl_check, under SpecAcl *)

Allow == "MOSQ_ERR_SUCCESS"

AclDeny == "MOSQ_ERR_ACL_DENIED"

\* the call of acl has returned
AclReturned == acl.ret \notin {"none", "pending"}

\* the username of the call is the configured superuser
IsSuperuser(username) == context.superuser # NULL /\ context.superuser = username

\* topic t lies in the namespace of username u: u, then '/', then at least
\* one more character
InNamespace(u, t) ==
    /\ Len(t) >= Len(u) + 2
    /\ SubSeq(t, 1, Len(u)) = u
    /\ t[Len(u) + 1] = 47

\* C1: for a present, non-superuser username u with clientId equal to u and
\* any topic t, the decision is Allow exactly when t is u followed by '/' and
\* at least one more character, and Deny in every other case.
C1_NamespaceRule ==
    (/\ AclReturned
     /\ acl.username # NULL
     /\ acl.clientid = acl.username
     /\ ~IsSuperuser(acl.username)
     /\ acl.topic # NULL)
    => /\ acl.ret \in {Allow, AclDeny}
       /\ acl.ret = Allow <=> InNamespace(acl.username, acl.topic)

\* "a" is allowed "a/b"
C1_Witness ==
    /\ AclReturned
    /\ context.superuser = NULL
    /\ acl.clientid = <<97>> /\ acl.username = <<97>>
    /\ acl.topic = <<97, 47, 98>>
    /\ acl.ret = Allow

\* C2: when clientId differs from the username and the username is not the
\* superuser, the decision is Deny for every topic (present or not, inside
\* either namespace or not) and every access kind.
C2_IdentityBinding ==
    (/\ AclReturned
     /\ acl.clientid # acl.username
     /\ ~IsSuperuser(acl.username))
    => acl.ret = AclDeny

\* client "a" with username "b" is denied "b/a", a topic of the username's
\* namespace, under a superuser that is neither
C2_Witness ==
    /\ AclReturned
    /\ context.superuser = <<47>>
    /\ acl.clientid = <<97>> /\ acl.username = <<98>>
    /\ acl.topic = <<98, 47, 97>>
    /\ acl.ret = AclDeny

\* C3: when the username is the configured superuser, the decision is Allow
\* for every clientId given (equal to the username or not) and every topic
\* (present or not); with no superuser configured, Allow is only ever the
\* result of the identity and namespace rules.
C3_SuperuserBypass ==
    /\ (AclReturned /\ IsSuperuser(acl.username) /\ acl.clientid # NULL)
           => acl.ret = Allow
    /\ (AclReturned /\ context.superuser = NULL /\ acl.ret = Allow)
           => /\ acl.clientid # NULL
              /\ acl.clientid = acl.username
              /\ acl.topic # NULL => InNamespace(acl.username, acl.topic)

\* superuser "a", used by client "b", is allowed the topic "b/a"
C3_Witness ==
    /\ AclReturned
    /\ context.superuser = <<97>>
    /\ acl.clientid = <<98>> /\ acl.username = <<97>>
    /\ acl.topic = <<98, 47, 97>>
    /\ acl.ret = Allow

\* C4: the decision is Deny whenever clientId or username is empty or absent,
\* for every topic, access kind and superuser configuration.
C4_EmptyOrAbsentDenied ==
    (/\ AclReturned
     /\ \/ acl.clientid \in {NULL, <<>>}
        \/ acl.username \in {NULL, <<>>})
    => acl.ret = AclDeny

\* the access kind the call was not made with
OtherAccess == CHOOSE a \in AccessKinds : a # acl.access

\* the results acl_check can return for the arguments of the call, made with
\* access kind a
WithAccess(a) ==
    acl_check(context.superuser, acl.clientid, acl.username, acl.topic, a)

\* C16: the access kind does not enter the decision: for every clientid,
\* username, topic and superuser, what acl_check returned is what the same
\* call with the other access kind returns.
C16_AccessKindIrrelevant ==
    AclReturned
    => /\ acl.ret \in WithAccess(OtherAccess)
       /\ WithAccess(OtherAccess) = WithAccess(acl.access)

\* "a" is allowed to write to "a/b", as it is allowed to read it
C16_Witness ==
    /\ AclReturned
    /\ context.superuser = NULL
    /\ acl.clientid = <<97>> /\ acl.username = <<97>>
    /\ acl.topic = <<97, 47, 98>>
    /\ acl.access = "MOSQ_ACL_WRITE"
    /\ acl.ret = Allow
    /\ WithAccess("MOSQ_ACL_READ") = {Allow}

-----------------------------------------------------------------------------
(* Properties of mosquitto_auth_unpwd_check on a single-threaded host,      *)
(* under SpecUnpwd                                                          *)

AuthDeny == "MOSQ_ERR_AUTH"

Indeterminate == "MOSQ_ERR_UNKNOWN"

\* the call of the host's one thread
TheCall == thr[1]

\* the call has returned and was for a present username
UnpwdReturned == TheCall.pc = "done" /\ TheCall.username # NULL

\* the row auth holds for the username of the call
StoredRow == store.auth[TheCall.username]

\* the guest condition: no secret configured and none supplied, or the
\* configured secret supplied
GuestGrant(guestsecret, password) ==
    \/ guestsecret = NULL /\ password = NULL
    \/ guestsecret # NULL /\ password # NULL /\ guestsecret = password

\* C5: when the lookup returns the row (hash, salt) of the username,
\* unpwd_check grants exactly when the 64-character hex encoding of
\* H(salt ++ password) equals the stored hash.
C5_RegisteredVerification ==
    (/\ UnpwdReturned
     /\ HasRow(store.auth, TheCall.username)
     /\ ~TheCall.faulted
     /\ TheCall.password # NULL)
    => (TheCall.ret = Allow
            <=> client_hash(StoredRow.salt, TheCall.password) = StoredRow.hash)

C7_StoreErrorIndeterminate ==
    (UnpwdReturned /\ TheCall.faulted) => TheCall.ret = Indeterminate

\* a lookup that failed at sqlite3_step for the unregistered "b", who would
\* pass the guest rule (no secret configured, none supplied)
C7_Witness ==
    /\ UnpwdReturned
    /\ TheCall.username = <<98>>
    /\ TheCall.faulted
    /\ stmt.state = "error"
    /\ context.guestsecret = NULL
    /\ TheCall.password = NULL
    /\ TheCall.ret = Indeterminate

\* C13: secrets have no length limit: whenever the stored hash of the
\* username is the hex encoding of H(salt ++ password) for the stored salt,
\* whatever its length, and the supplied password, unpwd_check grants, and
\* the salt that entered the digest is the complete stored salt.
C13_NoLengthLimit ==
    (/\ UnpwdReturned
     /\ HasRow(store.auth, TheCall.username)
     /\ ~TheCall.faulted
     /\ TheCall.password # NULL
     /\ StoredRow.hash = client_hash(StoredRow.salt, TheCall.password))
    => /\ TheCall.ret = Allow
       /\ TheCall.salt = StoredRow.salt

\* the lookups the next call can make on the statement as it is now, for
\* username, while the store is healthy
NextLookups(username) ==
    unpwd_run_healthy(unpwd_enter(username, Pw1), stmt, store.auth,
                      context.guestsecret)

\* C18: after a lookup returned, whatever its outcome (row, no row, error at
\* bind or at step), the compiled query is in its reset state, and the next
\* lookup made while the store is healthy succeeds and yields the row, or
\* the absence of a row, of its own username.
C18_QueryReadyAfterLookup ==
    UnpwdReturned
    => /\ stmt.state = "ready"
       /\ \A username \in UnpwdUsers :
             \A x \in NextLookups(username) :
                 /\ x.th.retval = "SQLITE_OK"
                 /\ x.th.found = "row" <=> HasRow(store.auth, username)

\* C22: a username that has a row in auth is never authenticated through
\* the guest fallback: whenever the lookup returned a row, whatever hash and
\* salt it holds (an empty hash included), unpwd_check grants only if a
\* password was supplied and the computed digest equals the stored hash.
C22_NoGuestFallbackForRegistered ==
    (/\ UnpwdReturned
     /\ TheCall.found = "row"
     /\ TheCall.retval = "SQLITE_OK"
     /\ TheCall.ret = Allow)
    => /\ TheCall.password # NULL
       /\ client_hash(TheCall.salt, TheCall.password) = StoredRow.hash

-----------------------------------------------------------------------------
(* Properties of concurrent mosquitto_auth_unpwd_check calls, under SpecConc *)

\* the results a call can return when it runs alone on a statement at rest
SoloResults(username, password) ==
    { x.th.ret : x \in unpwd_run(unpwd_enter(username, password), FreshStatement,
                                 store.auth, context.guestsecret) }

\* C8: calls that run concurrently on the shared statement are isolated: each
\* returns a result it could return when run alone, and what its lookup read
\* is the row (or the absence of a row) of its own username.
C8_ConcurrentIsolation ==
    \A t \in Threads :
        (thr[t].pc = "done" /\ thr[t].username # NULL)
        => /\ thr[t].ret \in SoloResults(thr[t].username, thr[t].password)
           /\ thr[t].found = "row" => HasRow(store.auth, thr[t].username)
           /\ (thr[t].found = "norow" /\ thr[t].retval = "SQLITE_OK")
                  => ~HasRow(store.auth, thr[t].username)

-----------------------------------------------------------------------------
(* Properties of the life cycle, under Spec *)

\* init has returned a code other than SUCCESS
InitFailed == local.initret \notin {"none", "SUCCESS"}

\* the resource a call acquires, "-" when it acquires none
Acquires(e) ==
    CASE e.op = "calloc"                                    -> "context"
      [] e.op = "sqlite3_initialize" /\ e.rc = "SQLITE_OK"  -> "library"
      [] e.op = "sqlite3_open" /\ e.rc = "SQLITE_OK"        -> "handle"
      [] e.op = "sqlite3_prepare_v2" /\ e.rc = "SQLITE_OK"  -> "statement"
      [] OTHER                                              -> "-"

\* the resource a call releases, "-" when it releases none
Releases(e) ==
    CASE e.op = "free_context"     -> "context"
      [] e.op = "sqlite3_shutdown" -> "library"
      [] e.op = "sqlite3_close"    -> "handle"
      [] e.op = "sqlite3_finalize" -> "statement"
      [] OTHER                     -> "-"

\* the resources acquired, in the order of their acquisition
AcquiredSeq ==
    LET A == SelectSeq(trace, LAMBDA e : Acquires(e) # "-")
    IN  [i \in 1..Len(A) |-> Acquires(A[i])]

\* the acquired resources released, in the order of their release
ReleasedSeq ==
    LET acquired == {AcquiredSeq[i] : i \in 1..Len(AcquiredSeq)}
        R == SelectSeq(trace, LAMBDA e : Releases(e) \in acquired)
    IN  [i \in 1..Len(R) |-> Releases(R[i])]

Reverse(q) == [i \in 1..Len(q) |-> q[Len(q) + 1 - i]]

\* C9: when init returns a code other than SUCCESS, every resource acquired
\* before the failure (context memory, library initialization, store handle,
\* compiled query) has been released, in reverse order of acquisition, and the
\* reference handed to the host does not refer to the released Context.
C9_InitFailureCleanup ==
    InitFailed
    => /\ context.mem # "live"
       /\ sqlite = "down"
       /\ context.db \notin {"open", "failed"}
       /\ context.passquery # "prepared"
       /\ ReleasedSeq = Reverse(AcquiredSeq)
       /\ user_data = "NULL"

\* the order of the life cycle
LifecycleOrder ==
    { <<"Uninitialized", "Initializing">>, <<"Initializing", "Ready">>,
      <<"Initializing", "Closed">>, <<"Ready", "ShuttingDown">>,
      <<"ShuttingDown", "Closed">> }

\* the positions of the trace whose event satisfies P
Positions(P(_)) == {i \in 1..Len(trace) : P(trace[i])}

Last(S) == CHOOSE i \in S : \A j \in S : j <= i

\* the store was opened, foreign keys were enabled, the three tables were
\* ensured without error and the query was compiled, in that order
SetupInOrder ==
    LET opened   == Positions(LAMBDA e : e.op = "sqlite3_open" /\ e.rc = "SQLITE_OK")
        pragma   == Positions(LAMBDA e : e.op = "pragma" /\ e.rc = "SQLITE_OK")
        prepared == Positions(LAMBDA e : e.op = "sqlite3_prepare_v2" /\ e.rc = "SQLITE_OK")
        about(n) == Positions(LAMBDA e : e.table = n /\ e.op \in {"count", "create"})
        ensured(n) == /\ about(n) # {}
                      /\ trace[Last(about(n))].rc = "SQLITE_OK"
                      /\ n \in store.tables
    IN  /\ opened # {} /\ pragma # {} /\ prepared # {}
        /\ \A n \in TableNames : ensured(n)
        /\ Last(opened) < Last(pragma)
        /\ Last(pragma) < Last(about("profile"))
        /\ Last(about("profile")) < Last(about("auth"))
        /\ Last(about("auth")) < Last(about("schedule"))
        /\ Last(about("schedule")) < Last(prepared)
        /\ ~schema_error(local)

\* a step of the life cycle follows its order, and a callback that decides or
\* looks up runs in Ready only
LifecycleStep ==
    /\ Lifecycle' # Lifecycle => <<Lifecycle, Lifecycle'>> \in LifecycleOrder
    /\ (acl' # acl \/ thr' # thr) => (Lifecycle = "Ready" /\ Lifecycle' = "Ready")

\* what holds of every state of the life cycle
LifecycleState ==
    /\ Lifecycle \in {"Ready", "ShuttingDown"} => local.initret = "SUCCESS"
    /\ Lifecycle = "Ready" => SetupInOrder
    /\ InitFailed => Lifecycle = "Closed"
    /\ acl.during \in {"none", "Ready"}

CleanupReturned == pc = "closed" /\ local.cleanupret # "none"

\* the positions of the trace at which cleanup called op
CleanupCalls(op) == Positions(LAMBDA e : e.op = op)

\* a step of cleanup (finalize, close, shutdown) reported an error
CleanupStepFailed ==
    \E i \in 1..Len(trace) :
        /\ trace[i].op \in {"sqlite3_finalize", "sqlite3_close", "sqlite3_shutdown"}
        /\ trace[i].rc # "SQLITE_OK"

\* C14: whatever steps of cleanup fail, cleanup returns one of its status
\* codes, the code is not SUCCESS when a step failed, and when it returns the
\* finalization of the query and then the close of the store have both been
\* attempted and the Context memory has been released exactly once.
C14_TeardownCompletes ==
    CleanupReturned
    => /\ local.cleanupret \in {"SUCCESS", "DB_FILE_CANTCLOSE", "FAILED_SQLITE"}
       /\ CleanupStepFailed => local.cleanupret # "SUCCESS"
       /\ CleanupCalls("sqlite3_finalize") # {}
       /\ \E i \in CleanupCalls("sqlite3_finalize"), j \in CleanupCalls("sqlite3_close") : i < j
       /\ Cardinality(CleanupCalls("free_context")) = 1
       /\ context.mem = "freed"

\* cleanup whose sqlite3_finalize failed: it still closed the store, released
\* the Context and returned DB_FILE_CANTCLOSE
C14_Witness ==
    /\ CleanupReturned
    /\ \E i \in CleanupCalls("sqlite3_finalize") : trace[i].rc # "SQLITE_OK"
    /\ CleanupCalls("sqlite3_close") # {}
    /\ local.cleanupret = "DB_FILE_CANTCLOSE"
    /\ context.mem = "freed"

\* init has returned
InitReturned == local.initret # "none"

\* the option list holds no db_file key
NoDbFileKey == \A i \in 1..Len(opts) : opts[i].key # "db_file"

\* the option list without the keys init does not read
RecognizedOpts ==
    SelectSeq(opts, LAMBDA o : o.key \in {"db_file", "superuser", "guest_secret"})

\* C15: init called with an option list without a db_file key returns
\* NO_DB_FILE_SPECIFIED, whatever the other keys and whatever the other steps
\* of init answer, and never opens a store; keys other than db_file,
\* superuser and guest_secret change nothing of what init reads.
C15_RequiredConfiguration ==
    /\ (InitReturned /\ NoDbFileKey)
           => /\ local.initret = "NO_DB_FILE_SPECIFIED"
              /\ \A i \in 1..Len(trace) : trace[i].op # "sqlite3_open"
    /\ pc # "start"
           => /\ local.dbfile = opt_value(RecognizedOpts, "db_file", NULL)
              /\ context.superuser = opt_value(RecognizedOpts, "superuser", NULL)
              /\ context.guestsecret = opt_value(RecognizedOpts, "guest_secret", NULL)

\* what create_table returned to init for table n ("none" before the call)
TableResult(n) ==
    CASE n = "profile"  -> local.profretvalue
      [] n = "auth"     -> local.authretvalue
      [] n = "schedule" -> local.schedretvalue

\* ensuring table n failed: an error, not Created or AlreadyExisted
TrueFailure(n) == TableResult(n) \notin {"none", "SUCCESS", "NOTREQUIRED"}

\* the tables init ensures after table n
LaterTables(n) ==
    CASE n = "profile"  -> {"auth", "schedule"}
      [] n = "auth"     -> {"schedule"}
      [] n = "schedule" -> {}

\* C19: when ensuring one of profile, auth, schedule fails, no schema
\* statement for a later table is executed, the lookup query is never
\* compiled, and init returns DB_ERROR with the store handle closed.
C19_SchemaFailureAborts ==
    \A n \in TableNames :
        TrueFailure(n)
        => /\ \A i \in 1..Len(trace) :
                 ~(trace[i].op \in {"count", "create"} /\ trace[i].table \in LaterTables(n))
           /\ \A i \in 1..Len(trace) : trace[i].op # "sqlite3_prepare_v2"
           /\ InitReturned => (local.initret = "DB_ERROR" /\ context.db = "closed")

\* init is past the test of the three results, none of them an error
SchemaAggregated ==
    /\ \A n \in TableNames : TableResult(n) # "none"
    /\ pc # "aggregate"
    /\ ~schema_error(local)

\* the lines init logged about the schema
SchemaLogs == Positions(LAMBDA e : e.op = "log")

\* init logged message at severity
Logged(message, severity) ==
    \E i \in SchemaLogs : trace[i].table = message /\ trace[i].rc = severity

AllCreated == \A n \in TableNames : TableResult(n) = "SUCCESS"

AllExisted == \A n \in TableNames : TableResult(n) = "NOTREQUIRED"

\* C20: over every combination of Created (SUCCESS) and AlreadyExisted
\* (NOTREQUIRED) results of the three create_table calls, init logs "fresh"
\* exactly when all three were created, logs nothing about the schema exactly
\* when all three existed, logs "patched" at warning severity in every mixed
\* combination, and goes on to compile the lookup query.
C20_SchemaAggregation ==
    SchemaAggregated
    => /\ AllCreated <=> (\E i \in SchemaLogs : trace[i].table = "fresh")
       /\ AllExisted <=> SchemaLogs = {}
       /\ (~AllCreated /\ ~AllExisted) <=> Logged("patched", "MOSQ_LOG_WARNING")
       /\ pc = "prepare" \/ (\E i \in 1..Len(trace) : trace[i].op = "sqlite3_prepare_v2")

-----------------------------------------------------------------------------
(* Properties of the decisions of a Ready engine, under SpecDecide *)

\* C21: in the Ready state, for every combination of present and absent
\* clientid, username, topic and password, acl_check returns Allow or Deny
\* and unpwd_check returns Allow, Deny or the indeterminate result: no call
\* faults.
C21_DecisionsComplete ==
    /\ AclReturned => acl.ret \in {Allow, AclDeny}
    /\ TheCall.pc = "done" => TheCall.ret \in {Allow, AuthDeny, Indeterminate}

-----------------------------------------------------------------------------
(* Properties of the reload hooks, under SpecReload *)

\* the step is a call of a reload hook
HookStep == local'.hook # local.hook

\* a call of a hook leaves the Context, the statement, the store and the
\* life cycle as they are
ReloadStep ==
    HookStep => /\ context' = context
                /\ stmt' = stmt
                /\ store' = store
                /\ user_data' = user_data
                /\ sqlite' = sqlite
                /\ pc' = pc

\* every hook call returned SUCCESS; the Context of a Ready engine is the one
\* init made of the options, and every decision of acl_check is the one that
\* Context gives, whatever hooks were called
ReloadState ==
    /\ local.hook.name # "none" => local.hook.ret = "SUCCESS"
    /\ Lifecycle = "Ready"
           => /\ context = [mem |-> "live", db |-> "open", passquery |-> "prepared",
                            superuser |-> opt_value(opts, "superuser", NULL),
                            guestsecret |-> opt_value(opts, "guest_secret", NULL)]
              /\ stmt = FreshStatement
    /\ AclReturned
           => acl.ret \in acl_check(opt_value(opts, "superuser", NULL), acl.clientid,
                                    acl.username, acl.topic, acl.access)

\* C17: security_init and security_cleanup return SUCCESS for either value of
\* the reload flag and in every state of the life cycle, and change nothing:
\* store handle, compiled query, superuser and guest secret are the same
\* before and after, so no later decision depends on a reload.
C17_ReloadHooksNoOp == [][ReloadStep]_vars /\ []ReloadState

\* the configuration was reloaded while the engine was Ready, and the
\* superuser "a" of the options is still allowed under another clientid
C17_Witness ==
    /\ local.hook.name = "security_init"
    /\ local.hook.reload
    /\ local.hook.during = "Ready"
    /\ local.hook.ret = "SUCCESS"
    /\ context.superuser = <<97>>
    /\ AclReturned
    /\ acl.clientid = <<98>> /\ acl.username = <<97>>
    /\ acl.ret = Allow

-----------------------------------------------------------------------------
(* Properties of the schema initialization run twice, under SpecSchema *)

\* the position of the trace at which the engine was started again
RestartAt == Last(Positions(LAMBDA e : e.op = "restart"))

\* the engine was started again after a first init that returned SUCCESS
SecondRunAfterSuccess == Restarted /\ trace[RestartAt].rc = "SUCCESS"

\* the positions of the second run at which the count query of table n answered
CountedAgain(n) ==
    {i \in (RestartAt + 1)..Len(trace) :
        trace[i].op = "count" /\ trace[i].table = n /\ trace[i].rc = "SQLITE_OK"}

\* what holds of the second run: no create statement, the three tables there,
\* and NOTREQUIRED for each table whose count query answered
SecondRunState ==
    SecondRunAfterSuccess
    => /\ \A i \in (RestartAt + 1)..Len(trace) : trace[i].op # "create"
       /\ store.tables = TableNames
       /\ CountedAgain("profile")  # {} => local.profretvalue  = "NOTREQUIRED"
       /\ CountedAgain("auth")     # {} => local.authretvalue  = "NOTREQUIRED"
       /\ CountedAgain("schedule") # {} => local.schedretvalue = "NOTREQUIRED"

\* a step of the second run leaves the tables and their rows as they are
SecondRunStep == SecondRunAfterSuccess => store' = store

\* C11: schema initialization run a second time, on a store where a first
\* init succeeded, reports NOTREQUIRED for profile, auth and schedule,
\* executes no create statement, and leaves the tables and their rows unchanged.
C11_SchemaIdempotent == [][SecondRunStep]_vars /\ []SecondRunState

\* a first run created the three tables, and the second run, Ready again,
\* found each of them
C11_Witness ==
    /\ SecondRunAfterSuccess
    /\ pc = "ready"
    /\ \A n \in TableNames :
          \E i \in 1..(RestartAt - 1) :
              trace[i].op = "create" /\ trace[i].table = n /\ trace[i].rc = "SQLITE_OK"
    /\ local.profretvalue = "NOTREQUIRED"
    /\ local.authretvalue = "NOTREQUIRED"
    /\ local.schedretvalue = "NOTREQUIRED"

-----------------------------------------------------------------------------
(* Properties of create_table run by two processes, under SpecRace *)

\* the times the store added the table to the file
Additions(name) ==
    {i \in 1..Len(trace) : trace[i].op = "added" /\ trace[i].table = name}

\* C12: for every interleaving of two processes running create_table for the
\* same table on the same file, a process whose statements the store did not
\* fail returns SUCCESS or NOTREQUIRED, never an error due to the other
\* process having created the table between its count query and its create
\* statement; the table is then in the file, and was added at most once.
C12_EnsureTableAtomic ==
    \A p \in Processes :
        /\ (thr[p].pc = "done" /\ ~thr[p].faulted)
               => /\ thr[p].ret \in {"SUCCESS", "NOTREQUIRED"}
                  /\ thr[p].name \in store.tables
        /\ Cardinality(Additions(thr[p].name)) <= 1

\* both processes found no table, then one created it before the other ran
\* its create statement; both returned SUCCESS
C12_Witness ==
    /\ \A p \in Processes :
          thr[p].pc = "done" /\ thr[p].count = 0 /\ thr[p].ret = "SUCCESS"
    /\ thr[1].name \in store.tables
    /\ Cardinality(Additions(thr[1].name)) = 1

\* both processes have returned, the store having failed no statement of theirs
BothReturned == \A p \in Processes : thr[p].pc = "done" /\ ~thr[p].faulted

\* the processes that returned SUCCESS (Created)
Creators == {p \in Processes : thr[p].ret = "SUCCESS"}

\* C23: for every interleaving of two processes running create_table for the
\* same table, absent at first, exactly one of them returns SUCCESS (Created)
\* and the other returns NOTREQUIRED (AlreadyExisted).
C23_RaceOutcomeReporting ==
    (BothReturned /\ Additions(thr[1].name) # {})
    => /\ Cardinality(Creators) = 1
       /\ \A p \in Processes \ Creators : thr[p].ret = "NOTREQUIRED"

-----------------------------------------------------------------------------
(* Properties of the hex encoding of unpwd_check, under SpecHex *)

\* the call in the encoding loop
HexNow == thr[1]

\* the hex digit of the high and of the low nibble of a digest byte
HighDigit(b) == digit[(b \div 16) + 1]

LowDigit(b) == digit[(b % 16) + 1]

\* '0'..'9' and 'a'..'f'
LowercaseHex == (48..57) \cup (97..102)

\* C24: with the digest in cells 0..31 of the 65-byte buffer, the loop from
\* byte 31 down to byte 0 reads every digest byte before any write reaches
\* its cell, and leaves in cells 2i and 2i + 1 the high and the low nibble of
\* digest byte i as lowercase hex digits; with the terminator the buffer holds
\* a string of exactly 64 such digits.
C24_HexEncodingCorrect ==
    /\ \A j \in 0..HexNow.i : HexNow.clienthash[j + 1] = HexNow.digest[j + 1]
    /\ \A j \in (HexNow.i + 1)..(DigestBytes - 1) :
          /\ HexNow.clienthash[2 * j + 1] = HighDigit(HexNow.digest[j + 1])
          /\ HexNow.clienthash[2 * j + 2] = LowDigit(HexNow.digest[j + 1])
    /\ HexNow.pc = "encoded"
           => /\ HexNow.clienthash[2 * DigestBytes + 1] = 0
              /\ Len(c_string(HexNow.clienthash)) = 2 * DigestBytes
              /\ \A c \in 1..(2 * DigestBytes) : HexNow.clienthash[c] \in LowercaseHex
              /\ c_string(HexNow.clienthash) = hex_encode(HexNow.digest)

\* the digest of 32 bytes 255 encoded as 64 characters 'f'
C24_Witness ==
    /\ HexNow.pc = "encoded"
    /\ HexNow.digest = [j \in 1..DigestBytes |-> 255]
    /\ c_string(HexNow.clienthash) = [c \in 1..(2 * DigestBytes) |-> 102]

=============================================================================
